---- MODULE Spec2Model ----
(***************************************************************************)
(* Screen-guidance sessions of SAMPARK (src/server/screen_analyzer.py).    *)
(* One handler (coroutine handle_screen_ws) per WebSocket connection, all  *)
(* on one asyncio event loop; a process-wide registry _active_sessions;    *)
(* wall-clock time read with time.time().                                  *)
(***************************************************************************)
EXTENDS Integers, Sequences, FiniteSets, TLC

VARIABLES
    now,                 \* time.time(), in seconds
    enable_screen_guide, \* settings.enable_screen_guide
    registry,            \* _active_sessions: session id -> owning handler
    pc,                  \* position of each handler coroutine
    sid,                 \* session_id argument of each handler
    lang,                \* session.lang
    context,             \* session.context
    last_guidance,       \* session.last_guidance
    frame_count,         \* session.frame_count
    started_at,          \* session.started_at
    is_active,           \* session.is_active
    last_analysis_time,  \* local last_analysis_time
    recv_start,          \* time at which the pending wait_for(receive_text) began
    raw,                 \* the payload returned by receive_text
    guidance,            \* local guidance (result of analyze_screen)
    out,                 \* events _send has passed to the transport in the current loop iteration
    branch,              \* the branch of the loop the handler took last
    analyses,            \* number of analyze_screen calls made by the handler
    emitted,             \* whether a guidance event was sent for the last analyzed frame (cur) and for the one before it (prev)
    nrecv,               \* number of payloads the handler has received
    dead,                \* whether websocket.send_text of the connection raises
    reply,               \* chat: the reply of process_query, a sequence of characters
    guided               \* chat: <<is_guided_flow(reply)>> once computed, <<>> before

vars == <<now, enable_screen_guide, registry, pc, sid, lang, context,
          last_guidance, frame_count, started_at, is_active,
          last_analysis_time, recv_start, raw, guidance, out, branch,
          analyses, emitted, nrecv, dead, reply, guided>>

\* the state of the chat endpoint, which the screen-guidance handlers never touch
chatVars == <<reply, guided>>

sessionVars == <<lang, context, last_guidance, frame_count, started_at, is_active>>

-----------------------------------------------------------------------------
(* Program constants *)

MAX_SESSION_DURATION == 300

MIN_FRAME_INTERVAL == 5

HEARTBEAT_TIMEOUT == 60

(* Bounds of the exploration *)

\* payloads one handler receives at most
MaxMsgs == 3

\* longest duration of one analyze_screen call, in seconds
MaxVision == 2

\* longest duration of one synthesize call, in seconds
MaxTts == 3

\* the wall-clock reading at which the exploration starts
Epoch == 100

\* the durations of the provider calls that are explored
VisionDurations == {0, MaxVision}

TtsDurations == {0, MaxTts}

SessionIds == {"s1", "s2"}

NoRaw == [kind |-> "none"]

-----------------------------------------------------------------------------
(* Inbound payloads: text frames as the client may send them *)

StartMsgs ==
    { [type |-> "start", lang |-> "en", context |-> "apply for scheme"],
      [type |-> "start"] }

FrameMsgs ==
    { [type |-> "frame", image |-> "dGVzdA=="],
      [type |-> "frame", image |-> ""],
      [type |-> "frame"] }

CommandMsgs ==
    { [type |-> "command", action |-> "repeat"],
      [type |-> "command", action |-> "stop"],
      [type |-> "command", action |-> "next"],
      [type |-> "command", action |-> "pause"] }

StopMsgs == { [type |-> "stop"] }

UnknownMsgs == { [type |-> "ping"], [image |-> "dGVzdA=="] }

Objects == StartMsgs \cup FrameMsgs \cup CommandMsgs \cup StopMsgs \cup UnknownMsgs

\* a payload is text that is not JSON, JSON that is not an object, or an object
Payloads ==
    { [kind |-> "text"], [kind |-> "array"] }
        \cup { [kind |-> "object", obj |-> o] : o \in Objects }

\* json.loads(raw): raises JSONDecodeError on text that is not JSON
JsonLoads(r) ==
    CASE r.kind = "text"   -> [ok |-> FALSE]
      [] r.kind = "array"  -> [ok |-> TRUE, dict |-> FALSE]
      [] r.kind = "object" -> [ok |-> TRUE, dict |-> TRUE, value |-> r.obj]
      [] OTHER             -> [ok |-> FALSE]

\* dict.get(key, default)
Get(d, key, default) == IF key \in DOMAIN d THEN d[key] ELSE default

-----------------------------------------------------------------------------
(* Outbound events *)

Status(m) == [type |-> "status", message |-> m]

Error(m) == [type |-> "error", message |-> m]

Guidance(t, a, n) == [type |-> "guidance", text |-> t, audio_b64 |-> a, frame_num |-> n]

TimedOutMsg == "Session timed out (5 minutes). Stopping."

StartedMsg == "Screen sharing started. Send frames."

StoppedMsg == "Screen sharing stopped."

NextMsg == "Send next frame for analysis."

-----------------------------------------------------------------------------
(* Collaborators *)

\* str.strip() on the contents the vision provider may return
Strip(s) == IF s = " " THEN "" ELSE s

\* what one call of the vision provider may do: return a content, or raise
VisionOutcomes ==
    { [raises |-> FALSE, content |-> " "],
      [raises |-> FALSE, content |-> "Press the blue button"],
      [raises |-> FALSE, content |-> "Click Next"],
      [raises |-> TRUE] }

\* the Hindi text is written here in Latin transliteration
_vision_fallback(l) ==
    IF l = "hi" THEN "Screen vishleshan mein samasya hui. Kripaya dobara prayas karen."
    ELSE "Screen analysis failed. Please try again."

\* analyze_screen: SCREEN_GUIDE_PROMPTS[lang] and ctx_msg[lang] raise KeyError for
\* a language other than hi / en; every exception yields the fallback text
analyze_screen(image_b64, ctx, l, o) ==
    IF l \notin {"hi", "en"} \/ o.raises THEN _vision_fallback(l)
    ELSE Strip(o.content)

\* synthesize returns the audio bytes, empty when every provider failed
AudioBytes == {"", "mp3"}

\* base64.b64encode(audio_bytes).decode() if audio_bytes else ""
AudioB64(a) == IF a = "" THEN "" ELSE "bXAz"

-----------------------------------------------------------------------------
(* The chat endpoint classifies each reply: is_guided_flow (ai_engine.py) *)

\* a text is a sequence of characters; a character outside ASCII is written by its
\* code point, "u091A" for U+091A
UpperCase == <<"A", "B", "C", "D", "E", "F", "G", "H", "I", "J", "K", "L", "M", "N", "O", "P", "Q", "R", "S", "T", "U", "V", "W", "X", "Y", "Z">>

LowerCase == <<"a", "b", "c", "d", "e", "f", "g", "h", "i", "j", "k", "l", "m", "n", "o", "p", "q", "r", "s", "t", "u", "v", "w", "x", "y", "z">>

\* str.lower() on one character: the letters A to Z have a lower-case form, the
\* other characters used here (digits, punctuation, Devanagari) are unchanged
LowerChar(c) ==
    IF \E i \in DOMAIN UpperCase : UpperCase[i] = c
      THEN LowerCase[CHOOSE i \in DOMAIN UpperCase : UpperCase[i] = c]
      ELSE c

\* str.lower()
Lower(s) == [i \in 1..Len(s) |-> LowerChar(s[i])]

\* sub in s, for two str values
In(sub, s) == \E i \in 0..(Len(s) - Len(sub)) : SubSeq(s, i + 1, i + Len(sub)) = sub

GUIDED_KEYWORDS ==
    << <<"u091A", "u0930", "u0923">>,
       <<"s", "t", "e", "p">>,
       <<"s", "t", "e", "p", "s">>,
       <<"u0906", "u0935", "u0947", "u0926", "u0928">>,
       <<"a", "p", "p", "l", "y">>,
       <<"r", "e", "g", "i", "s", "t", "e", "r">>,
       <<"u092A", "u0902", "u091C", "u0940", "u0915", "u0930", "u0923">>,
       <<"u092B", "u093C", "u0949", "u0930", "u094D", "u092E">>,
       <<"f", "o", "r", "m">>,
       <<"u0935", "u0947", "u092C", "u0938", "u093E", "u0907", "u091F">>,
       <<"w", "e", "b", "s", "i", "t", "e">>,
       <<"u092A", "u094B", "u0930", "u094D", "u091F", "u0932">>,
       <<"p", "o", "r", "t", "a", "l">>,
       <<".", "g", "o", "v", ".", "i", "n">>,
       <<".", "n", "i", "c", ".", "i", "n">>,
       <<"u0936", "u093F", "u0915", "u093E", "u092F", "u0924">>,
       <<"g", "r", "i", "e", "v", "a", "n", "c", "e">>,
       <<"c", "o", "m", "p", "l", "a", "i", "n", "t">>,
       <<"l", "i", "n", "k">>,
       <<"u0932", "u093F", "u0902", "u0915">> >>

\* a slip: the response is searched as it is, not in lower case
is_guided_flow_cased(response) ==
    Cardinality({ i \in DOMAIN GUIDED_KEYWORDS : In(Lower(GUIDED_KEYWORDS[i]), response) }) >= 2

\* sum(1 for kw in GUIDED_KEYWORDS if kw.lower() in text_lower) >= 2: one is added
\* for each entry of the list found in the text
is_guided_flow(response) ==
    LET text_lower == Lower(response)
    IN Cardinality({ i \in DOMAIN GUIDED_KEYWORDS :
                       In(Lower(GUIDED_KEYWORDS[i]), text_lower) }) >= 2

\* the number of pieces a reply is put together from
MaxFragments == 3

\* pieces of replies: keywords in several cases, parts of keywords, other text
Fragments ==
    { <<"S", "t", "e", "p">>,
      <<"S", "T", "E", "P", "S">>,
      <<"s">>,
      <<" ">>,
      <<"f", "o", "r", "m">>,
      <<"P", "o", "r">>,
      <<"t", "a", "l">>,
      <<".", "G", "O", "V", ".", "I", "N">>,
      <<"h", "e", "l", "l", "o">>,
      <<"u091A", "u0930", "u0923">> }

RECURSIVE Flatten(_)
Flatten(fs) == IF fs = <<>> THEN <<>> ELSE Head(fs) \o Flatten(Tail(fs))

\* the replies process_query may give
Replies ==
    { Flatten(fs) : fs \in UNION { [1..n -> Fragments] : n \in 0..MaxFragments } }

-----------------------------------------------------------------------------
(* Initial state: the process is up, no connection has been made yet *)

Handlers == DOMAIN pc

\* no connection has been made by any of the handlers HS
Idle(HS) ==
    /\ now = Epoch
    /\ enable_screen_guide \in BOOLEAN
    /\ registry = [s \in {} |-> "h1"]
    /\ pc = [h \in HS |-> "idle"]
    /\ sid = [h \in HS |-> "s1"]
    /\ lang = [h \in HS |-> "hi"]
    /\ context = [h \in HS |-> ""]
    /\ last_guidance = [h \in HS |-> ""]
    /\ frame_count = [h \in HS |-> 0]
    /\ started_at = [h \in HS |-> 0]
    /\ is_active = [h \in HS |-> FALSE]
    /\ last_analysis_time = [h \in HS |-> 0]
    /\ recv_start = [h \in HS |-> 0]
    /\ raw = [h \in HS |-> NoRaw]
    /\ guidance = [h \in HS |-> ""]
    /\ out = [h \in HS |-> <<>>]
    /\ branch = [h \in HS |-> "idle"]
    /\ analyses = [h \in HS |-> 0]
    /\ emitted = [h \in HS |-> [prev |-> FALSE, cur |-> FALSE]]
    /\ nrecv = [h \in HS |-> 0]
    /\ dead = [h \in HS |-> FALSE]

\* no connection has been made and no chat query answered
InitWith(HS) ==
    /\ Idle(HS)
    /\ reply = <<>>
    /\ guided = <<>>

Init == InitWith({"h1"})

-----------------------------------------------------------------------------
(* Helpers of the handler *)

\* analyze_screen is a synchronous call made on the event loop: while one handler
\* is inside it, no other coroutine of the process runs
Runs(h) == \A g \in Handlers \ {h} : pc[g] # "vision"

\* _send(websocket, data): send_text passes the event to the transport, or raises
\* when the transport is dead; the except clause of _send swallows the exception
_send(h, e) == out' = [out EXCEPT ![h] = IF dead[h] THEN @ ELSE Append(@, e)]

\* a slip: the session ends on reaching the ceiling, not on exceeding it
TimedOutAtCeiling(h) == now - started_at[h] >= MAX_SESSION_DURATION

\* a slip: the age is measured from the last wait, not from the start
TimedOutSinceReceive(h) == now - recv_start[h] > MAX_SESSION_DURATION

\* session.duration_seconds > MAX_SESSION_DURATION
TimedOut(h) == now - started_at[h] > MAX_SESSION_DURATION

\* a slip: the gate opens one second early
TooFrequentShortGate(h) == now - last_analysis_time[h] < MIN_FRAME_INTERVAL - 1

\* a slip: the gate measures from the start of the session
TooFrequentSinceStart(h) == now - started_at[h] < MIN_FRAME_INTERVAL

\* now - last_analysis_time < MIN_FRAME_INTERVAL
TooFrequent(h) == now - last_analysis_time[h] < MIN_FRAME_INTERVAL

\* a slip: the emptiness test is left out
IsDifferentGuidance(h, g) == g # last_guidance[h]

\* a slip: the comparison with last_guidance is left out
IsNonEmptyGuidance(h, g) == g # ""

\* guidance and guidance != session.last_guidance
IsNewGuidance(h, g) == g # "" /\ g # last_guidance[h]

\* msg = json.loads(raw), for a payload that is a JSON object
Msg(r) == JsonLoads(r).value

IsDict(r) == JsonLoads(r).ok /\ JsonLoads(r).dict

\* msg_type = msg.get("type", "")
MsgType(r) == Get(Msg(r), "type", "")

\* _active_sessions[session_id] = session
RegistryPut(reg, s, h) == [x \in DOMAIN reg \cup {s} |-> IF x = s THEN h ELSE reg[x]]

\* a slip: the finally clause empties the registry
RegistryClear(reg, s) == [x \in {} |-> reg[x]]

\* _active_sessions.pop(session_id, None)
RegistryPop(reg, s) == [x \in DOMAIN reg \ {s} |-> reg[x]]

\* get_active_sessions_count()
get_active_sessions_count == Cardinality(DOMAIN registry)

\* a slip: the finally clause leaves the registry as it is
FinallyKeepsEntry(h) ==
    /\ registry' = registry
    /\ pc' = [pc EXCEPT ![h] = "done"]

\* the finally clause: the registry entry of this session id is popped and the
\* coroutine ends
Finally(h) ==
    /\ registry' = RegistryPop(registry, sid[h])
    /\ pc' = [pc EXCEPT ![h] = "done"]

-----------------------------------------------------------------------------
(* Connection set-up *)

\* a slip: the endpoint runs the handler whatever the feature flag says
ConnectIgnoresFlag(h, s) ==
    /\ pc[h] = "idle"
    /\ Runs(h)
    /\ sid' = [sid EXCEPT ![h] = s]
    /\ pc' = [pc EXCEPT ![h] = "accept"]
    /\ branch' = [branch EXCEPT ![h] = "connecting"]
    /\ UNCHANGED <<now, enable_screen_guide, chatVars, dead, registry, sessionVars,
                   last_analysis_time, recv_start, raw, guidance, out,
                   analyses, emitted, nrecv>>

\* screen_ws: the endpoint closes the socket with code 4003 when the feature is
\* disabled, and runs the handler otherwise
Connect(h, s) ==
    /\ pc[h] = "idle"
    /\ Runs(h)
    /\ sid' = [sid EXCEPT ![h] = s]
    /\ IF enable_screen_guide
         THEN /\ pc' = [pc EXCEPT ![h] = "accept"]
              /\ branch' = [branch EXCEPT ![h] = "connecting"]
         ELSE /\ pc' = [pc EXCEPT ![h] = "refused"]
              /\ branch' = [branch EXCEPT ![h] = "closed_4003"]
    /\ UNCHANGED <<now, enable_screen_guide, chatVars, dead, registry, sessionVars,
                   last_analysis_time, recv_start, raw, guidance, out,
                   analyses, emitted, nrecv>>

\* a slip: the rate gate starts closed, last_analysis_time beginning at the time of
\* the accept
AcceptStampsGate(h) ==
    /\ pc[h] = "accept"
    /\ Runs(h)
    /\ lang' = [lang EXCEPT ![h] = "hi"]
    /\ context' = [context EXCEPT ![h] = ""]
    /\ last_guidance' = [last_guidance EXCEPT ![h] = ""]
    /\ frame_count' = [frame_count EXCEPT ![h] = 0]
    /\ started_at' = [started_at EXCEPT ![h] = now]
    /\ is_active' = [is_active EXCEPT ![h] = TRUE]
    /\ registry' = RegistryPut(registry, sid[h], h)
    /\ last_analysis_time' = [last_analysis_time EXCEPT ![h] = now]
    /\ pc' = [pc EXCEPT ![h] = "top"]
    /\ branch' = [branch EXCEPT ![h] = "accepted"]
    /\ UNCHANGED <<now, enable_screen_guide, chatVars, dead, sid, recv_start, raw, guidance,
                   out, analyses, emitted, nrecv>>

\* await websocket.accept(); the session object is built and registered
Accept(h) ==
    /\ pc[h] = "accept"
    /\ Runs(h)
    /\ lang' = [lang EXCEPT ![h] = "hi"]
    /\ context' = [context EXCEPT ![h] = ""]
    /\ last_guidance' = [last_guidance EXCEPT ![h] = ""]
    /\ frame_count' = [frame_count EXCEPT ![h] = 0]
    /\ started_at' = [started_at EXCEPT ![h] = now]
    /\ is_active' = [is_active EXCEPT ![h] = TRUE]
    /\ registry' = RegistryPut(registry, sid[h], h)
    /\ last_analysis_time' = [last_analysis_time EXCEPT ![h] = 0]
    /\ pc' = [pc EXCEPT ![h] = "top"]
    /\ branch' = [branch EXCEPT ![h] = "accepted"]
    /\ UNCHANGED <<now, enable_screen_guide, chatVars, dead, sid, recv_start, raw, guidance,
                   out, analyses, emitted, nrecv>>

-----------------------------------------------------------------------------
(* Head of the loop *)

\* while session.is_active: the flag is false, the loop ends and finally runs
LoopExit(h) ==
    /\ pc[h] = "top"
    /\ Runs(h)
    /\ ~is_active[h]
    /\ Finally(h)
    /\ UNCHANGED <<now, enable_screen_guide, chatVars, dead, sid, sessionVars,
                   last_analysis_time, recv_start, raw, guidance, out, branch,
                   analyses, emitted, nrecv>>

\* the age check finds the session too old: the status event is sent, then break
SessionTimeout(h) ==
    /\ pc[h] = "top"
    /\ Runs(h)
    /\ is_active[h]
    /\ TimedOut(h)
    /\ out' = [out EXCEPT ![h] = IF dead[h] THEN <<>> ELSE <<Status(TimedOutMsg)>>]
    /\ raw' = [raw EXCEPT ![h] = NoRaw]
    /\ pc' = [pc EXCEPT ![h] = "finally"]
    /\ branch' = [branch EXCEPT ![h] = "timed_out"]
    /\ UNCHANGED <<now, enable_screen_guide, chatVars, dead, registry, sid, sessionVars,
                   last_analysis_time, recv_start, guidance,
                   analyses, emitted, nrecv>>

\* after the send of the time-out status has returned: finally
EndAfterTimeout(h) ==
    /\ pc[h] = "finally"
    /\ Runs(h)
    /\ Finally(h)
    /\ UNCHANGED <<now, enable_screen_guide, chatVars, dead, sid, sessionVars,
                   last_analysis_time, recv_start, raw, guidance, out, branch,
                   analyses, emitted, nrecv>>

\* the age check passes: wait_for(websocket.receive_text(), timeout=60) begins
BeginReceive(h) ==
    /\ pc[h] = "top"
    /\ Runs(h)
    /\ is_active[h]
    /\ ~TimedOut(h)
    /\ recv_start' = [recv_start EXCEPT ![h] = now]
    /\ out' = [out EXCEPT ![h] = <<>>]
    /\ raw' = [raw EXCEPT ![h] = NoRaw]
    /\ pc' = [pc EXCEPT ![h] = "recv"]
    /\ branch' = [branch EXCEPT ![h] = "waiting"]
    /\ UNCHANGED <<now, enable_screen_guide, chatVars, dead, registry, sid, sessionVars,
                   last_analysis_time, guidance, analyses, emitted, nrecv>>

-----------------------------------------------------------------------------
(* Dispatch of a received payload r: the code from json.loads to the next await *)

\* json.loads raises JSONDecodeError: error event, continue
InvalidJson(h, r) ==
    /\ ~JsonLoads(r).ok
    /\ _send(h, Error("Invalid JSON"))
    /\ pc' = [pc EXCEPT ![h] = "top"]
    /\ branch' = [branch EXCEPT ![h] = "invalid_json"]
    /\ UNCHANGED <<now, enable_screen_guide, chatVars, dead, registry, sid, sessionVars,
                   last_analysis_time, recv_start, guidance, analyses, emitted>>

\* msg.get on a JSON value that is no object raises AttributeError, which the
\* except Exception clause of the handler catches: the loop is left, finally runs
NotAnObject(h, r) ==
    /\ JsonLoads(r).ok
    /\ ~JsonLoads(r).dict
    /\ Finally(h)
    /\ branch' = [branch EXCEPT ![h] = "exception"]
    /\ UNCHANGED <<now, enable_screen_guide, chatVars, dead, sid, sessionVars,
                   last_analysis_time, recv_start, guidance, out, analyses, emitted>>

\* a slip: a start message without lang or context keeps the values of the session
HandleStartKeepsFields(h, r) ==
    /\ IsDict(r)
    /\ MsgType(r) = "start"
    /\ lang' = [lang EXCEPT ![h] = Get(Msg(r), "lang", @)]
    /\ context' = [context EXCEPT ![h] = Get(Msg(r), "context", @)]
    /\ _send(h, Status(StartedMsg))
    /\ pc' = [pc EXCEPT ![h] = "top"]
    /\ branch' = [branch EXCEPT ![h] = "start"]
    /\ UNCHANGED <<now, enable_screen_guide, chatVars, dead, registry, sid, last_guidance,
                   frame_count, started_at, is_active,
                   last_analysis_time, recv_start, guidance, analyses, emitted>>

\* a slip: a start message begins the guidance afresh and forgets last_guidance
HandleStartResetsGuidance(h, r) ==
    /\ IsDict(r)
    /\ MsgType(r) = "start"
    /\ lang' = [lang EXCEPT ![h] = Get(Msg(r), "lang", "hi")]
    /\ context' = [context EXCEPT ![h] = Get(Msg(r), "context", "")]
    /\ last_guidance' = [last_guidance EXCEPT ![h] = ""]
    /\ _send(h, Status(StartedMsg))
    /\ pc' = [pc EXCEPT ![h] = "top"]
    /\ branch' = [branch EXCEPT ![h] = "start"]
    /\ UNCHANGED <<now, enable_screen_guide, chatVars, dead, registry, sid,
                   frame_count, started_at, is_active,
                   last_analysis_time, recv_start, guidance, analyses, emitted>>

\* msg_type == "start"
HandleStart(h, r) ==
    /\ IsDict(r)
    /\ MsgType(r) = "start"
    /\ lang' = [lang EXCEPT ![h] = Get(Msg(r), "lang", "hi")]
    /\ context' = [context EXCEPT ![h] = Get(Msg(r), "context", "")]
    /\ _send(h, Status(StartedMsg))
    /\ pc' = [pc EXCEPT ![h] = "top"]
    /\ branch' = [branch EXCEPT ![h] = "start"]
    /\ UNCHANGED <<now, enable_screen_guide, chatVars, dead, registry, sid, last_guidance,
                   frame_count, started_at, is_active,
                   last_analysis_time, recv_start, guidance, analyses, emitted>>

\* a slip: the frame is counted before the rate gate is consulted
HandleFrameCountFirst(h, r) ==
    /\ IsDict(r)
    /\ MsgType(r) = "frame"
    /\ frame_count' = [frame_count EXCEPT ![h] = @ + 1]
    /\ IF TooFrequent(h) \/ Get(Msg(r), "image", "") = ""
         THEN /\ pc' = [pc EXCEPT ![h] = "top"]
              /\ branch' = [branch EXCEPT ![h] = "frame_skipped"]
              /\ UNCHANGED <<last_analysis_time, analyses>>
         ELSE /\ last_analysis_time' = [last_analysis_time EXCEPT ![h] = now]
              /\ analyses' = [analyses EXCEPT ![h] = @ + 1]
              /\ pc' = [pc EXCEPT ![h] = "vision"]
              /\ branch' = [branch EXCEPT ![h] = "analyzing"]
    /\ UNCHANGED <<now, enable_screen_guide, chatVars, dead, registry, sid, lang, context,
                   last_guidance, started_at, is_active, recv_start,
                   guidance, out, emitted>>

\* a slip: the time of the analysis is noted before the image is looked at
HandleFrameStampsFirst(h, r) ==
    /\ IsDict(r)
    /\ MsgType(r) = "frame"
    /\ IF TooFrequent(h)
         THEN /\ pc' = [pc EXCEPT ![h] = "top"]
              /\ branch' = [branch EXCEPT ![h] = "frame_skipped"]
              /\ UNCHANGED <<frame_count, last_analysis_time, analyses>>
         ELSE IF Get(Msg(r), "image", "") = ""
         THEN /\ last_analysis_time' = [last_analysis_time EXCEPT ![h] = now]
              /\ pc' = [pc EXCEPT ![h] = "top"]
              /\ branch' = [branch EXCEPT ![h] = "frame_no_image"]
              /\ UNCHANGED <<frame_count, analyses>>
         ELSE /\ frame_count' = [frame_count EXCEPT ![h] = @ + 1]
              /\ last_analysis_time' = [last_analysis_time EXCEPT ![h] = now]
              /\ analyses' = [analyses EXCEPT ![h] = @ + 1]
              /\ pc' = [pc EXCEPT ![h] = "vision"]
              /\ branch' = [branch EXCEPT ![h] = "analyzing"]
    /\ UNCHANGED <<now, enable_screen_guide, chatVars, dead, registry, sid, lang, context,
                   last_guidance, started_at, is_active, recv_start,
                   guidance, out, emitted>>

\* msg_type == "frame": the rate gate, the image check, then the call of
\* analyze_screen begins
HandleFrame(h, r) ==
    /\ IsDict(r)
    /\ MsgType(r) = "frame"
    /\ IF TooFrequent(h)
         THEN /\ pc' = [pc EXCEPT ![h] = "top"]
              /\ branch' = [branch EXCEPT ![h] = "frame_skipped"]
              /\ UNCHANGED <<frame_count, last_analysis_time, analyses>>
         ELSE IF Get(Msg(r), "image", "") = ""
         THEN /\ pc' = [pc EXCEPT ![h] = "top"]
              /\ branch' = [branch EXCEPT ![h] = "frame_no_image"]
              /\ UNCHANGED <<frame_count, last_analysis_time, analyses>>
         ELSE /\ frame_count' = [frame_count EXCEPT ![h] = @ + 1]
              /\ last_analysis_time' = [last_analysis_time EXCEPT ![h] = now]
              /\ analyses' = [analyses EXCEPT ![h] = @ + 1]
              /\ pc' = [pc EXCEPT ![h] = "vision"]
              /\ branch' = [branch EXCEPT ![h] = "analyzing"]
    /\ UNCHANGED <<now, enable_screen_guide, chatVars, dead, registry, sid, lang, context,
                   last_guidance, started_at, is_active, recv_start,
                   guidance, out, emitted>>

\* a slip: the next command opens the rate gate for the frame that follows
HandleCommandNextOpensGate(h, r) ==
    /\ IsDict(r)
    /\ MsgType(r) = "command"
    /\ LET action == Get(Msg(r), "action", "")
       IN IF action = "repeat" /\ last_guidance[h] # ""
            THEN /\ pc' = [pc EXCEPT ![h] = "tts_repeat"]
                 /\ branch' = [branch EXCEPT ![h] = "repeat"]
                 /\ UNCHANGED <<is_active, out, last_analysis_time>>
            ELSE IF action = "stop"
            THEN /\ is_active' = [is_active EXCEPT ![h] = FALSE]
                 /\ _send(h, Status(StoppedMsg))
                 /\ pc' = [pc EXCEPT ![h] = "top"]
                 /\ branch' = [branch EXCEPT ![h] = "stop"]
                 /\ UNCHANGED last_analysis_time
            ELSE IF action = "next"
            THEN /\ _send(h, Status(NextMsg))
                 /\ last_analysis_time' = [last_analysis_time EXCEPT ![h] = 0]
                 /\ pc' = [pc EXCEPT ![h] = "top"]
                 /\ branch' = [branch EXCEPT ![h] = "next"]
                 /\ UNCHANGED is_active
            ELSE /\ pc' = [pc EXCEPT ![h] = "top"]
                 /\ branch' = [branch EXCEPT ![h] = "command_ignored"]
                 /\ UNCHANGED <<is_active, out, last_analysis_time>>
    /\ UNCHANGED <<now, enable_screen_guide, chatVars, dead, registry, sid, lang, context,
                   last_guidance, frame_count, started_at,
                   recv_start, guidance, analyses, emitted>>

\* msg_type == "command"
HandleCommand(h, r) ==
    /\ IsDict(r)
    /\ MsgType(r) = "command"
    /\ LET action == Get(Msg(r), "action", "")
       IN IF action = "repeat" /\ last_guidance[h] # ""
            THEN /\ pc' = [pc EXCEPT ![h] = "tts_repeat"]
                 /\ branch' = [branch EXCEPT ![h] = "repeat"]
                 /\ UNCHANGED <<is_active, out>>
            ELSE IF action = "stop"
            THEN /\ is_active' = [is_active EXCEPT ![h] = FALSE]
                 /\ _send(h, Status(StoppedMsg))
                 /\ pc' = [pc EXCEPT ![h] = "top"]
                 /\ branch' = [branch EXCEPT ![h] = "stop"]
            ELSE IF action = "next"
            THEN /\ _send(h, Status(NextMsg))
                 /\ pc' = [pc EXCEPT ![h] = "top"]
                 /\ branch' = [branch EXCEPT ![h] = "next"]
                 /\ UNCHANGED is_active
            ELSE /\ pc' = [pc EXCEPT ![h] = "top"]
                 /\ branch' = [branch EXCEPT ![h] = "command_ignored"]
                 /\ UNCHANGED <<is_active, out>>
    /\ UNCHANGED <<now, enable_screen_guide, chatVars, dead, registry, sid, lang, context,
                   last_guidance, frame_count, started_at,
                   last_analysis_time, recv_start, guidance, analyses, emitted>>

\* a slip: the stop branch also clears the context of the session
HandleStopClearsContext(h, r) ==
    /\ IsDict(r)
    /\ MsgType(r) = "stop"
    /\ is_active' = [is_active EXCEPT ![h] = FALSE]
    /\ context' = [context EXCEPT ![h] = ""]
    /\ _send(h, Status(StoppedMsg))
    /\ pc' = [pc EXCEPT ![h] = "top"]
    /\ branch' = [branch EXCEPT ![h] = "stop"]
    /\ UNCHANGED <<now, enable_screen_guide, chatVars, dead, registry, sid, lang,
                   last_guidance, frame_count, started_at,
                   last_analysis_time, recv_start, guidance, analyses, emitted>>

\* a slip: the stop branch does not clear session.is_active
HandleStopKeepsActive(h, r) ==
    /\ IsDict(r)
    /\ MsgType(r) = "stop"
    /\ _send(h, Status(StoppedMsg))
    /\ pc' = [pc EXCEPT ![h] = "top"]
    /\ branch' = [branch EXCEPT ![h] = "stop"]
    /\ UNCHANGED <<now, enable_screen_guide, chatVars, dead, registry, sid, sessionVars,
                   last_analysis_time, recv_start, guidance, analyses, emitted>>

\* msg_type == "stop"
HandleStop(h, r) ==
    /\ IsDict(r)
    /\ MsgType(r) = "stop"
    /\ is_active' = [is_active EXCEPT ![h] = FALSE]
    /\ _send(h, Status(StoppedMsg))
    /\ pc' = [pc EXCEPT ![h] = "top"]
    /\ branch' = [branch EXCEPT ![h] = "stop"]
    /\ UNCHANGED <<now, enable_screen_guide, chatVars, dead, registry, sid, lang, context,
                   last_guidance, frame_count, started_at,
                   last_analysis_time, recv_start, guidance, analyses, emitted>>

\* no branch of the if / elif chain matches: the loop goes round
HandleOther(h, r) ==
    /\ IsDict(r)
    /\ MsgType(r) \notin {"start", "frame", "command", "stop"}
    /\ pc' = [pc EXCEPT ![h] = "top"]
    /\ branch' = [branch EXCEPT ![h] = "type_ignored"]
    /\ UNCHANGED <<now, enable_screen_guide, chatVars, dead, registry, sid, sessionVars,
                   last_analysis_time, recv_start, guidance, out, analyses, emitted>>

-----------------------------------------------------------------------------
(* The wait for the next payload *)

\* a slip: a payload is taken in while the analysis of a frame is under way
ReceiveWhileAnalyzing(h, r) ==
    /\ pc[h] \in {"recv", "vision"}
    /\ now <= recv_start[h] + HEARTBEAT_TIMEOUT
    /\ raw' = [raw EXCEPT ![h] = r]
    /\ nrecv' = [nrecv EXCEPT ![h] = @ + 1]
    /\ \/ InvalidJson(h, r)
       \/ NotAnObject(h, r)
       \/ HandleStart(h, r)
       \/ HandleFrame(h, r)
       \/ HandleCommand(h, r)
       \/ HandleStop(h, r)
       \/ HandleOther(h, r)

\* a slip: a payload is taken in while the speech call of the one before is pending
ReceiveWhileBusy(h, r) ==
    /\ pc[h] \in {"recv", "tts"}
    /\ Runs(h)
    /\ now <= recv_start[h] + HEARTBEAT_TIMEOUT
    /\ raw' = [raw EXCEPT ![h] = r]
    /\ nrecv' = [nrecv EXCEPT ![h] = @ + 1]
    /\ \/ InvalidJson(h, r)
       \/ NotAnObject(h, r)
       \/ HandleStart(h, r)
       \/ HandleFrame(h, r)
       \/ HandleCommand(h, r)
       \/ HandleStop(h, r)
       \/ HandleOther(h, r)

\* receive_text returns payload r before the timer fires; the payload is parsed
\* and dispatched
Receive(h, r) ==
    /\ pc[h] = "recv"
    /\ Runs(h)
    /\ now <= recv_start[h] + HEARTBEAT_TIMEOUT
    /\ raw' = [raw EXCEPT ![h] = r]
    /\ nrecv' = [nrecv EXCEPT ![h] = @ + 1]
    /\ \/ InvalidJson(h, r)
       \/ NotAnObject(h, r)
       \/ HandleStart(h, r)
       \/ HandleFrame(h, r)
       \/ HandleCommand(h, r)
       \/ HandleStop(h, r)
       \/ HandleOther(h, r)

\* a slip: the timeout of the wait goes round the loop without the heartbeat
HeartbeatTimeoutSilent(h) ==
    /\ pc[h] = "recv"
    /\ Runs(h)
    /\ now >= recv_start[h] + HEARTBEAT_TIMEOUT
    /\ pc' = [pc EXCEPT ![h] = "top"]
    /\ branch' = [branch EXCEPT ![h] = "heartbeat"]
    /\ UNCHANGED <<now, enable_screen_guide, chatVars, dead, registry, sid, sessionVars,
                   last_analysis_time, recv_start, raw, guidance, out,
                   analyses, emitted, nrecv>>

\* asyncio.TimeoutError: heartbeat status, continue
HeartbeatTimeout(h) ==
    /\ pc[h] = "recv"
    /\ Runs(h)
    /\ now >= recv_start[h] + HEARTBEAT_TIMEOUT
    /\ _send(h, Status("heartbeat"))
    /\ pc' = [pc EXCEPT ![h] = "top"]
    /\ branch' = [branch EXCEPT ![h] = "heartbeat"]
    /\ UNCHANGED <<now, enable_screen_guide, chatVars, dead, registry, sid, sessionVars,
                   last_analysis_time, recv_start, raw, guidance,
                   analyses, emitted, nrecv>>

\* receive_text raises WebSocketDisconnect: the except clause, then finally
Disconnect(h) ==
    /\ pc[h] = "recv"
    /\ Runs(h)
    /\ Finally(h)
    /\ branch' = [branch EXCEPT ![h] = "disconnected"]
    /\ UNCHANGED <<now, enable_screen_guide, chatVars, dead, sid, sessionVars,
                   last_analysis_time, recv_start, raw, guidance, out,
                   analyses, emitted, nrecv>>

-----------------------------------------------------------------------------
(* The analysis pipeline *)

\* a slip: last_guidance keeps the first guidance of the session, so that a result
\* is compared with the first text sent and not with the one sent last
VisionReturnKeepsFirst(h, o, d) ==
    /\ pc[h] = "vision"
    /\ LET g == analyze_screen(Get(Msg(raw[h]), "image", ""), context[h], lang[h], o)
       IN /\ guidance' = [guidance EXCEPT ![h] = g]
          /\ IF IsNewGuidance(h, g)
               THEN /\ last_guidance' = [last_guidance EXCEPT ![h] = IF @ = "" THEN g ELSE @]
                    /\ pc' = [pc EXCEPT ![h] = "tts"]
                    /\ branch' = [branch EXCEPT ![h] = "synthesizing"]
               ELSE /\ UNCHANGED last_guidance
                    /\ pc' = [pc EXCEPT ![h] = "top"]
                    /\ branch' = [branch EXCEPT ![h] = "no_new_guidance"]
    /\ emitted' = [emitted EXCEPT ![h] = [prev |-> @.cur, cur |-> FALSE]]
    /\ now' = now + d
    /\ UNCHANGED <<enable_screen_guide, chatVars, dead, registry, sid, lang, context,
                   frame_count, started_at, is_active, last_analysis_time,
                   recv_start, raw, out, analyses, nrecv>>

\* analyze_screen returns after d seconds; identical or empty guidance is dropped,
\* new guidance is stored and synthesize is awaited
VisionReturn(h, o, d) ==
    /\ pc[h] = "vision"
    /\ LET g == analyze_screen(Get(Msg(raw[h]), "image", ""), context[h], lang[h], o)
       IN /\ guidance' = [guidance EXCEPT ![h] = g]
          /\ IF IsNewGuidance(h, g)
               THEN /\ last_guidance' = [last_guidance EXCEPT ![h] = g]
                    /\ pc' = [pc EXCEPT ![h] = "tts"]
                    /\ branch' = [branch EXCEPT ![h] = "synthesizing"]
               ELSE /\ UNCHANGED last_guidance
                    /\ pc' = [pc EXCEPT ![h] = "top"]
                    /\ branch' = [branch EXCEPT ![h] = "no_new_guidance"]
    /\ emitted' = [emitted EXCEPT ![h] = [prev |-> @.cur, cur |-> FALSE]]
    /\ now' = now + d
    /\ UNCHANGED <<enable_screen_guide, chatVars, dead, registry, sid, lang, context,
                   frame_count, started_at, is_active, last_analysis_time,
                   recv_start, raw, out, analyses, nrecv>>

\* a slip: the repeat branch sends the local guidance, not session.last_guidance
SynthReturnLocalText(h, a, d) ==
    /\ pc[h] \in {"tts", "tts_repeat"}
    /\ Runs(h)
    /\ _send(h, Guidance(guidance[h], AudioB64(a), frame_count[h]))
    /\ now' = now + d
    /\ pc' = [pc EXCEPT ![h] = "top"]
    /\ branch' = [branch EXCEPT ![h] = IF pc[h] = "tts" THEN "guidance" ELSE "repeated"]
    /\ emitted' = [emitted EXCEPT ![h] = IF pc[h] = "tts" THEN [@ EXCEPT !.cur = TRUE] ELSE @]
    /\ UNCHANGED <<enable_screen_guide, chatVars, dead, registry, sid, sessionVars,
                   last_analysis_time, recv_start, raw, guidance,
                   analyses, nrecv>>

\* a slip: _send lets the exception of send_text through, and the except clause of
\* the handler ends the session
SynthReturnSendRaises(h, a, d) ==
    /\ pc[h] \in {"tts", "tts_repeat"}
    /\ Runs(h)
    /\ now' = now + d
    /\ emitted' = [emitted EXCEPT ![h] = IF pc[h] = "tts" THEN [@ EXCEPT !.cur = TRUE] ELSE @]
    /\ IF dead[h]
         THEN /\ Finally(h)
              /\ branch' = [branch EXCEPT ![h] = "exception"]
              /\ UNCHANGED out
         ELSE /\ _send(h, Guidance(IF pc[h] = "tts" THEN guidance[h] ELSE last_guidance[h],
                                   AudioB64(a), frame_count[h]))
              /\ pc' = [pc EXCEPT ![h] = "top"]
              /\ branch' = [branch EXCEPT ![h] = IF pc[h] = "tts" THEN "guidance" ELSE "repeated"]
              /\ UNCHANGED registry
    /\ UNCHANGED <<enable_screen_guide, chatVars, dead, sid, sessionVars,
                   last_analysis_time, recv_start, raw, guidance,
                   analyses, nrecv>>

\* synthesize returns audio a after d seconds; the guidance event is sent
SynthReturn(h, a, d) ==
    /\ pc[h] \in {"tts", "tts_repeat"}
    /\ Runs(h)
    /\ _send(h, Guidance(IF pc[h] = "tts" THEN guidance[h] ELSE last_guidance[h],
                         AudioB64(a), frame_count[h]))
    /\ now' = now + d
    /\ pc' = [pc EXCEPT ![h] = "top"]
    /\ branch' = [branch EXCEPT ![h] = IF pc[h] = "tts" THEN "guidance" ELSE "repeated"]
    /\ emitted' = [emitted EXCEPT ![h] = IF pc[h] = "tts" THEN [@ EXCEPT !.cur = TRUE] ELSE @]
    /\ UNCHANGED <<enable_screen_guide, chatVars, dead, registry, sid, sessionVars,
                   last_analysis_time, recv_start, raw, guidance,
                   analyses, nrecv>>

-----------------------------------------------------------------------------
(* Passage of time *)

\* time passes only while every coroutine is suspended
Waiting == /\ \A h \in Handlers : pc[h] \notin {"top", "vision", "finally"}
           /\ \E h \in Handlers : pc[h] = "recv"

Receiving == {h \in Handlers : pc[h] = "recv"}

\* the moments at which a pending wait_for timer fires
Deadlines == { recv_start[h] + HEARTBEAT_TIMEOUT : h \in Receiving }

\* the moments at which something changes for a waiting handler: a timer fires,
\* the age of a session passes the ceiling, the rate gate is about to open, the
\* rate gate opens
Instants ==
    Deadlines
        \cup { started_at[h] + MAX_SESSION_DURATION + 1 : h \in Receiving }
        \cup { last_analysis_time[h] + MIN_FRAME_INTERVAL - 1 : h \in Receiving }
        \cup { last_analysis_time[h] + MIN_FRAME_INTERVAL : h \in Receiving }

\* the clock moves to a later instant, not beyond the moment a timer fires
Tick ==
    /\ Waiting
    /\ \E t \in Instants :
         /\ now < t
         /\ \A u \in Deadlines : t <= u
         /\ now' = t
    /\ UNCHANGED <<enable_screen_guide, chatVars, dead, registry, pc, sid, sessionVars,
                   last_analysis_time, recv_start, raw, guidance, out, branch,
                   analyses, emitted, nrecv>>

-----------------------------------------------------------------------------

\* one step of one handler coroutine, or of the clock; a client sends at most N
\* payloads, all of P, the vision provider answers with an outcome of O after a time of VD, the
\* speech provider answers with audio of A after a time of TD
StepOf(P, N, O, VD, A, TD) ==
    \/ \E h \in Handlers : Accept(h)
    \/ \E h \in Handlers : LoopExit(h)
    \/ \E h \in Handlers : SessionTimeout(h)
    \/ \E h \in Handlers : EndAfterTimeout(h)
    \/ \E h \in Handlers : BeginReceive(h)
    \/ \E h \in Handlers, r \in P : nrecv[h] < N /\ Receive(h, r)
    \/ \E h \in Handlers : HeartbeatTimeout(h)
    \/ \E h \in Handlers : Disconnect(h)
    \/ \E h \in Handlers, o \in O, d \in VD : VisionReturn(h, o, d)
    \/ \E h \in Handlers, a \in A, d \in TD : SynthReturn(h, a, d)
    \/ Tick

\* one connection, made with session id s1, and any payload and provider outcome
Next ==
    \/ \E h \in Handlers : Connect(h, "s1")
    \/ StepOf(Payloads, MaxMsgs, VisionOutcomes, VisionDurations, AudioBytes, TtsDurations)

Spec == Init /\ [][Next]_vars

\* the number of payloads the client of each of two connections sends
MaxConcMsgs == 1

\* two connections served by the same process
InitConc == InitWith({"h1", "h2"})

\* the payloads of the clients of the two connections: a frame, the two ways of
\* stopping, and a JSON array, on which msg.get raises
ConcPayloads ==
    { [kind |-> "array"] }
        \cup { [kind |-> "object", obj |-> o] :
                 o \in { [type |-> "frame", image |-> "dGVzdA=="],
                         [type |-> "command", action |-> "stop"],
                         [type |-> "stop"] } }

\* the vision provider answers at once with a guidance text
ConcOutcomes == { o \in VisionOutcomes : ~o.raises /\ o.content = "Click Next" }

\* two connections: h1 names the one made first, s1 the session id its client
\* supplies; the client of the second supplies the same id or another
NextConc ==
    \/ Connect("h1", "s1")
    \/ \E s \in SessionIds : pc["h1"] # "idle" /\ Connect("h2", s)
    \/ StepOf(ConcPayloads, MaxConcMsgs, ConcOutcomes, {0}, {"mp3"}, {0})

SpecConc == InitConc /\ [][NextConc]_vars

-----------------------------------------------------------------------------
(* Vocabulary of the properties *)

\* the step in which handler h receives and dispatches a payload (raw'[h])
Received(h) == pc[h] = "recv" /\ nrecv'[h] = nrecv[h] + 1

\* the step in which the analyze_screen call of handler h returns
Analyzed(h) == pc[h] = "vision" /\ pc'[h] # "vision"

\* the step in which the synthesize call of handler h returns
Synthesized(h) == pc[h] \in {"tts", "tts_repeat"} /\ pc'[h] \notin {"tts", "tts_repeat"}

IsObjectOfType(r, t) == r.kind = "object" /\ "type" \in DOMAIN r.obj /\ r.obj.type = t

IsFramePayload(r) == IsObjectOfType(r, "frame")

HasImage(r) == "image" \in DOMAIN r.obj /\ r.obj.image # ""

IsCommand(r, a) ==
    IsObjectOfType(r, "command") /\ "action" \in DOMAIN r.obj /\ r.obj.action = a

Age(h) == now - started_at[h]

-----------------------------------------------------------------------------
(* Properties *)

\* C1: a frame payload received less than 5 seconds after the last analyzed frame is
\* dropped silently: analyze_screen is not called, nothing is sent, and frame_count,
\* last_guidance and last_analysis_time keep their values.
C1_RateGateDropsSilently ==
    [][\A h \in Handlers :
          (Received(h) /\ IsFramePayload(raw'[h]) /\ now - last_analysis_time[h] < 5)
          => /\ pc'[h] = "top"
             /\ analyses'[h] = analyses[h]
             /\ out'[h] = <<>>
             /\ frame_count'[h] = frame_count[h]
             /\ last_guidance'[h] = last_guidance[h]
             /\ last_analysis_time'[h] = last_analysis_time[h]]_vars

\* a frame with an image has been dropped 1 to 4 seconds after an analyzed frame
C1_Witness ==
    \E h \in Handlers :
        /\ pc[h] = "top"
        /\ branch[h] = "frame_skipped"
        /\ IsFramePayload(raw[h]) /\ HasImage(raw[h])
        /\ frame_count[h] >= 1
        /\ now - last_analysis_time[h] \in 1..4
        /\ out[h] = <<>>

\* C2: frame_count equals the number of analyze_screen calls made so far; it changes
\* only by one, in the step that receives a frame payload carrying an image at least
\* 5 seconds after the last analyzed frame and starts the analysis.
C2_FrameCountCountsAnalyses ==
    /\ [](\A h \in Handlers : frame_count[h] = analyses[h])
    /\ [][\A h \in Handlers :
             frame_count'[h] # frame_count[h]
             => /\ frame_count'[h] = frame_count[h] + 1
                /\ Received(h)
                /\ IsFramePayload(raw'[h]) /\ HasImage(raw'[h])
                /\ now - last_analysis_time[h] >= 5
                /\ pc'[h] = "vision"]_vars

\* two frames were analyzed and a third frame and a command were not counted
C2_Witness ==
    \E h \in Handlers :
        /\ frame_count[h] = 2
        /\ analyses[h] = 2
        /\ nrecv[h] = 3
        /\ branch[h] \in {"frame_skipped", "frame_no_image", "next"}

\* C3 as stated: for every pair of consecutive analyzed frames whose results are the
\* same non-empty text, one guidance event is sent for the pair, for the first
\* frame, and nothing is sent or synthesized for the second.
C3_OneEventPerIdenticalPair ==
    [][\A h \in Handlers :
          (Analyzed(h) /\ guidance'[h] # "" /\ guidance'[h] = guidance[h])
          => /\ emitted[h].cur
             /\ pc'[h] = "top"
             /\ out'[h] = out[h]]_vars

\* C3 as amended: when the result of an analyzed frame is the same non-empty text as
\* the result of the analyzed frame before it, nothing is sent or synthesized for it
\* and last_guidance is kept, so the pair yields at most one guidance event; a frame
\* gets its guidance event, with its text, exactly when its result is non-empty and
\* differs from last_guidance.
C3_SecondOfPairSuppressed ==
    [][\A h \in Handlers :
          /\ (Analyzed(h) /\ guidance'[h] # "" /\ guidance'[h] = guidance[h])
             => /\ pc'[h] = "top"
                /\ out'[h] = out[h]
                /\ last_guidance'[h] = last_guidance[h]
          /\ Analyzed(h)
             => (pc'[h] = "tts" <=> (guidance'[h] # "" /\ guidance'[h] # last_guidance[h]))
          /\ (Synthesized(h) /\ pc[h] = "tts")
             => /\ Len(out'[h]) = Len(out[h]) + 1
                /\ out'[h][Len(out'[h])].type = "guidance"
                /\ out'[h][Len(out'[h])].text = guidance[h]
                /\ emitted'[h].cur]_vars

\* the second frame of a pair was suppressed after the first got its event
C3_Witness ==
    \E h \in Handlers :
        /\ pc[h] = "top"
        /\ branch[h] = "no_new_guidance"
        /\ guidance[h] # ""
        /\ guidance[h] = last_guidance[h]
        /\ emitted[h] = [prev |-> TRUE, cur |-> FALSE]
        /\ analyses[h] = 2
        /\ out[h] = <<>>

\* C4: last_guidance changes only when analyze_screen returns a text that is not
\* empty and differs from it, and then becomes that text; no other step changes it,
\* and it is never reset to empty once set.
C4_LastGuidanceOnlyNewText ==
    [][\A h \in Handlers :
          /\ last_guidance'[h] # last_guidance[h]
             => /\ Analyzed(h)
                /\ guidance'[h] # ""
                /\ guidance'[h] # last_guidance[h]
                /\ last_guidance'[h] = guidance'[h]
          /\ last_guidance[h] # "" => last_guidance'[h] # ""]_vars

\* an empty result left a set last_guidance alone
C4_Witness ==
    \E h \in Handlers :
        /\ branch[h] = "no_new_guidance"
        /\ guidance[h] = ""
        /\ last_guidance[h] # ""

\* C5: a repeat command received while last_guidance is set leads to one guidance
\* event carrying last_guidance and frame_count as they are; received while
\* last_guidance is empty it sends nothing; either way frame_count, last_guidance
\* and last_analysis_time keep their values.
C5_RepeatReusesLastGuidance ==
    [][\A h \in Handlers :
          /\ (Received(h) /\ IsCommand(raw'[h], "repeat"))
             => /\ out'[h] = <<>>
                /\ pc'[h] = IF last_guidance[h] # "" THEN "tts_repeat" ELSE "top"
                /\ frame_count'[h] = frame_count[h]
                /\ last_guidance'[h] = last_guidance[h]
                /\ last_analysis_time'[h] = last_analysis_time[h]
                /\ analyses'[h] = analyses[h]
          /\ (Synthesized(h) /\ pc[h] = "tts_repeat")
             => /\ pc'[h] = "top"
                /\ Len(out'[h]) = 1
                /\ out'[h][1].type = "guidance"
                /\ out'[h][1].text = last_guidance[h]
                /\ out'[h][1].frame_num = frame_count[h]
                /\ frame_count'[h] = frame_count[h]
                /\ last_guidance'[h] = last_guidance[h]
                /\ last_analysis_time'[h] = last_analysis_time[h]
                /\ analyses'[h] = analyses[h]]_vars

\* a repeat was answered after an analysis whose result was not new
C5_Witness ==
    \E h \in Handlers :
        /\ pc[h] = "top"
        /\ branch[h] = "repeated"
        /\ IsCommand(raw[h], "repeat")
        /\ Len(out[h]) = 1
        /\ out[h][1] = Guidance(last_guidance[h], "bXAz", 2)
        /\ guidance[h] # last_guidance[h]

\* C6 as stated: a session whose age exceeds 300 seconds at the age check sends the
\* timed-out status and ends, and no frame payload received once the age has passed
\* 300 seconds is analyzed, one that arrives during a pending wait included.
C6_NoFrameAnalyzedPastCeiling ==
    [][\A h \in Handlers :
          /\ (pc[h] = "top" /\ is_active[h] /\ Age(h) > 300 /\ pc'[h] # "top")
             => (out'[h] = <<Status(TimedOutMsg)>> /\ pc'[h] = "finally")
          /\ (Received(h) /\ IsFramePayload(raw'[h]) /\ Age(h) > 300)
             => (analyses'[h] = analyses[h] /\ frame_count'[h] = frame_count[h])]_vars

\* C6 as amended: the age check at the head of the loop ends the session, with the
\* timed-out status as its only event, exactly when the age exceeds 300 seconds, and
\* after that nothing is received, analyzed or sent; a frame that arrives during a
\* wait begun at an age of at most 300 seconds is still analyzed, so an analysis
\* starts at an age of at most 300 seconds plus one 60-second wait.
C6_TimeoutEndsAnalysis ==
    [][\A h \in Handlers :
          /\ (pc[h] = "top" /\ is_active[h] /\ pc'[h] # "top")
             => IF Age(h) > 300
                  THEN out'[h] = <<Status(TimedOutMsg)>> /\ pc'[h] = "finally"
                  ELSE pc'[h] = "recv"
          /\ branch[h] = "timed_out"
             => /\ branch'[h] = "timed_out"
                /\ pc'[h] \in {"finally", "done"}
                /\ nrecv'[h] = nrecv[h]
                /\ analyses'[h] = analyses[h]
                /\ frame_count'[h] = frame_count[h]
                /\ out'[h] = out[h]
          /\ analyses'[h] # analyses[h]
             => /\ Received(h)
                /\ recv_start[h] - started_at[h] <= 300
                /\ now - recv_start[h] <= 60]_vars

\* a session has timed out after analyzing a frame received past the ceiling
C6_Witness ==
    \E h \in Handlers :
        /\ pc[h] = "done"
        /\ branch[h] = "timed_out"
        /\ out[h] = <<Status(TimedOutMsg)>>
        /\ last_analysis_time[h] - started_at[h] > 300

Live(h) == pc[h] \in {"top", "recv", "vision", "tts", "tts_repeat"}

\* C7 as stated: the age check runs once per processed payload and once per
\* heartbeat timeout, so no session is still running more than 60 seconds after its
\* age has passed 300 seconds.
C7_EndsWithinOneHeartbeat ==
    \A h \in Handlers : Live(h) => Age(h) <= MAX_SESSION_DURATION + HEARTBEAT_TIMEOUT

\* C7 as amended: every wait for a payload begins right after an age check that found
\* the age at most 300 seconds, so no session is still running later than one
\* 60-second wait plus the processing of one payload (one analyze_screen call and one
\* synthesize call) after its age has passed 300 seconds.
C7_EndsWithinHeartbeatAndProcessing ==
    /\ [](\A h \in Handlers : Live(h) => Age(h) <= MAX_SESSION_DURATION + HEARTBEAT_TIMEOUT + MaxVision + MaxTts)
    /\ [][\A h \in Handlers :
             (pc'[h] = "recv" /\ pc[h] # "recv")
             => (pc[h] = "top" /\ Age(h) <= 300 /\ recv_start'[h] = now)]_vars

\* a session was ended by the age check more than 360 seconds after its start
C7_Witness ==
    \E h \in Handlers :
        /\ pc[h] = "finally"
        /\ branch[h] = "timed_out"
        /\ Age(h) > 300 + 60

Malformed(r) ==
    \/ r.kind \in {"text", "array"}
    \/ /\ r.kind = "object"
       /\ ~ \E t \in {"start", "frame", "command", "stop"} : IsObjectOfType(r, t)

\* C8: a payload that is not JSON, is JSON but no object, or is an object whose type
\* is none of start, frame, command, stop leads to exactly one error event, and the
\* session stays active and registered with lang, context, last_guidance and
\* frame_count as they were.
C8_MalformedYieldsOneError ==
    [][\A h \in Handlers :
          (Received(h) /\ Malformed(raw'[h]))
          => /\ Len(out'[h]) = 1
             /\ out'[h][1].type = "error"
             /\ pc'[h] = "top"
             /\ is_active'[h]
             /\ sid[h] \in DOMAIN registry'
             /\ lang'[h] = lang[h]
             /\ context'[h] = context[h]
             /\ last_guidance'[h] = last_guidance[h]
             /\ frame_count'[h] = frame_count[h]]_vars

\* the payloads that ask the session to stop
IsStop(r) == IsObjectOfType(r, "stop") \/ IsCommand(r, "stop")

\* C9: a stop message or a stop command leads to exactly one stopped status and ends
\* the session; when its handler ends, the entry of its session id is gone from the
\* registry and the registry count is one lower than before.
C9_StopLowersCount ==
    [][\A h \in Handlers :
          /\ (Received(h) /\ IsStop(raw'[h]))
             => /\ out'[h] = <<Status(StoppedMsg)>>
                /\ ~is_active'[h]
                /\ pc'[h] = "top"
          /\ (branch[h] = "stop" /\ pc[h] = "top" /\ pc'[h] = "done")
             => /\ sid[h] \notin DOMAIN registry'
                /\ get_active_sessions_count' = get_active_sessions_count - 1]_vars

Terminated(h) == branch[h] \in {"stop", "timed_out", "disconnected", "exception"}

\* C10: once a session has terminated (stop, time-out, disconnect) it receives and
\* processes nothing more and sends nothing more; a handler ends only through one of
\* these, and the stopped or timed-out status is the last event sent.
C10_TerminatedIsAbsorbing ==
    /\ [][\A h \in Handlers :
             Terminated(h)
             => /\ branch'[h] = branch[h]
                /\ pc'[h] \in {"top", "finally", "done"}
                /\ nrecv'[h] = nrecv[h]
                /\ raw'[h] = raw[h]
                /\ out'[h] = out[h]
                /\ analyses'[h] = analyses[h]
                /\ frame_count'[h] = frame_count[h]
                /\ last_guidance'[h] = last_guidance[h]
                /\ lang'[h] = lang[h]
                /\ context'[h] = context[h]]_vars
    /\ [](\A h \in Handlers :
             /\ pc[h] \in {"finally", "done"} => Terminated(h)
             /\ branch[h] = "stop"
                => (out[h] # <<>> /\ out[h][Len(out[h])] = Status(StoppedMsg))
             /\ branch[h] = "timed_out" => out[h] = <<Status(TimedOutMsg)>>)

\* a stopped session has ended, the stopped status being its last event
C10_Witness ==
    \E h \in Handlers :
        /\ pc[h] = "done"
        /\ branch[h] = "stop"
        /\ out[h] = <<Status(StoppedMsg)>>
        /\ nrecv[h] = 2

-----------------------------------------------------------------------------

\* the step in which the pending receive of handler h raises instead of returning
ReceiveRaises(h) == pc[h] = "recv" /\ pc'[h] = "done" /\ nrecv'[h] = nrecv[h]

\* C11: when the transport disconnects during the wait for a payload, the handler
\* ends without sending anything, the session changes no field, and the entry of its
\* session id is gone from the registry; a handler that ended this way has sent
\* nothing in its last loop iteration and is not registered.
C11_DisconnectEndsSilently ==
    /\ [][\A h \in Handlers :
             ReceiveRaises(h)
             => /\ out'[h] = out[h]
                /\ out[h] = <<>>
                /\ sid[h] \notin DOMAIN registry'
                /\ branch'[h] = "disconnected"
                /\ <<lang, context, last_guidance, frame_count>>'
                       = <<lang, context, last_guidance, frame_count>>]_vars
    /\ [](\A h \in Handlers :
             (pc[h] = "done" /\ branch[h] = "disconnected")
             => (out[h] = <<>> /\ sid[h] \notin DOMAIN registry))

\* a session that had analyzed a frame was ended by a disconnect
C11_Witness ==
    \E h \in Handlers :
        /\ pc[h] = "done"
        /\ branch[h] = "disconnected"
        /\ frame_count[h] = 1
        /\ last_guidance[h] # ""
        /\ registry = << >>

-----------------------------------------------------------------------------

\* the analyze_screen call of handler h returns after the provider call failed: the
\* fallback text is what _openai_vision returns from its except clause, and no
\* provider content equals it
VisionFailed(h) == Analyzed(h) /\ guidance'[h] = _vision_fallback(lang[h])

\* the synthesize call of handler h returns without audio: every speech provider
\* failed
SpeechFailed(h) ==
    /\ Synthesized(h)
    /\ ~ /\ Len(out'[h]) > Len(out[h])
         /\ out'[h][Len(out'[h])].audio_b64 # ""

\* C12: when the vision provider or the speech provider fails while a frame is
\* analyzed, nothing is sent for the frame, last_guidance is not changed, and the
\* session stays active and goes on to the next payload.
C12_ProviderFailureIsSilent ==
    [][\A h \in Handlers :
          /\ VisionFailed(h)
             => /\ pc'[h] = "top"
                /\ out'[h] = out[h]
                /\ last_guidance'[h] = last_guidance[h]
                /\ is_active'[h]
          /\ (SpeechFailed(h) /\ pc[h] = "tts")
             => /\ pc'[h] = "top"
                /\ out'[h] = out[h]
                /\ is_active'[h]]_vars

-----------------------------------------------------------------------------

\* event e is one that the processing of payload r sends (NoRaw: no payload has
\* been received in this loop iteration)
EventFor(e, r) ==
    CASE e.type = "guidance" -> IsFramePayload(r) \/ IsCommand(r, "repeat")
      [] e.type = "error" -> r.kind = "text"
      [] e = Status(StartedMsg) -> IsObjectOfType(r, "start")
      [] e = Status(StoppedMsg) -> IsStop(r)
      [] e = Status(NextMsg) -> IsCommand(r, "next")
      [] OTHER -> r = NoRaw

\* C13: a payload is received only by a handler that is waiting for one, never
\* while the one before is analyzed or spoken, and it is the payload received after
\* those already counted; every event sent is sent for the payload received last
\* (or, with no payload in the loop iteration, is the heartbeat or the time-out
\* status) and is added after the events already sent for it, or is the first
\* event of a new loop iteration.
C13_OneMessageAtATime ==
    [][\A h \in Handlers :
          /\ nrecv'[h] # nrecv[h]
             => /\ pc[h] = "recv"
                /\ nrecv'[h] = nrecv[h] + 1
                /\ out[h] = <<>>
          /\ pc[h] \in {"vision", "tts", "tts_repeat"}
             => (raw'[h] = raw[h] /\ nrecv'[h] = nrecv[h])
          /\ (out'[h] # out[h] /\ out'[h] # <<>>)
             => LET e == out'[h][Len(out'[h])]
                IN /\ EventFor(e, raw'[h])
                   /\ \/ out'[h] = Append(out[h], e)
                      \/ pc[h] = "top" /\ out'[h] = <<e>>]_vars

\* the guidance event of the second payload, a frame, has been sent after the
\* events of the first payload
C13_Witness ==
    \E h \in Handlers :
        /\ nrecv[h] = 2
        /\ pc[h] = "top"
        /\ IsFramePayload(raw[h])
        /\ Len(out[h]) = 1
        /\ out[h][1].type = "guidance"
        /\ out[h][1].frame_num = frame_count[h]

-----------------------------------------------------------------------------

\* the step in which the wait of handler h for a payload ends by its timer
WaitTimedOut(h) == pc[h] = "recv" /\ pc'[h] = "top" /\ nrecv'[h] = nrecv[h]

\* C14: a wait ends by its timer only 60 seconds after it began; the handler then
\* sends one heartbeat status, the session stays active and registered with lang,
\* context, last_guidance, frame_count and last_analysis_time as they were, and,
\* its age being at most 300 seconds, the handler goes back to waiting.
C14_HeartbeatKeepsWaiting ==
    [][\A h \in Handlers :
          /\ WaitTimedOut(h)
             => /\ now = recv_start[h] + HEARTBEAT_TIMEOUT
                /\ out'[h] = <<Status("heartbeat")>>
                /\ is_active'[h]
                /\ sid[h] \in DOMAIN registry'
                /\ registry' = registry
                /\ <<lang, context, last_guidance, frame_count, last_analysis_time>>'
                       = <<lang, context, last_guidance, frame_count, last_analysis_time>>
          /\ (pc[h] = "top" /\ branch[h] = "heartbeat" /\ pc'[h] # "top"
                /\ Age(h) <= MAX_SESSION_DURATION)
             => (pc'[h] = "recv" /\ recv_start'[h] = now)]_vars

\* a session that had received guidance waits again after a heartbeat
C14_Witness ==
    \E h \in Handlers :
        /\ pc[h] = "recv"
        /\ recv_start[h] = now
        /\ out[h] = <<>>
        /\ nrecv[h] = 1
        /\ frame_count[h] = 1
        /\ last_guidance[h] # ""
        /\ now >= last_analysis_time[h] + HEARTBEAT_TIMEOUT

-----------------------------------------------------------------------------

\* the handler of h has built its session
HasSession(h) == pc[h] \notin {"idle", "accept", "refused"}

\* C15 as stated: at every moment frame_count is at most the age of the session
\* divided by 5 seconds, rounded up.
C15_AtMostCeilingOfAge ==
    \A h \in Handlers :
        HasSession(h)
        => frame_count[h] <= (Age(h) + MIN_FRAME_INTERVAL - 1) \div MIN_FRAME_INTERVAL

\* C15 as amended: at every moment frame_count is at most one more than the age of
\* the session divided by 5 seconds, rounded down: the first frame is analyzed at
\* any age, zero included, and each later one at least 5 seconds after the one
\* before.
C15_AtMostOnePerInterval ==
    \A h \in Handlers :
        HasSession(h) => frame_count[h] <= (Age(h) \div MIN_FRAME_INTERVAL) + 1

\* three frames have been analyzed within the first 10 seconds of a session
C15_Witness ==
    \E h \in Handlers :
        /\ HasSession(h)
        /\ frame_count[h] = 3
        /\ Age(h) = 2 * MIN_FRAME_INTERVAL

-----------------------------------------------------------------------------

\* C16: a start message sets lang and context to the values it carries, "hi" and the
\* empty text standing in for an absent one, sends exactly one status event, the
\* started status, and leaves the session active with its other fields as they were.
C16_StartSetsLangAndContext ==
    [][\A h \in Handlers :
          (Received(h) /\ IsObjectOfType(raw'[h], "start"))
          => LET o == raw'[h].obj
             IN /\ lang'[h] = (IF "lang" \in DOMAIN o THEN o.lang ELSE "hi")
                /\ context'[h] = (IF "context" \in DOMAIN o THEN o.context ELSE "")
                /\ out'[h] = <<Status(StartedMsg)>>
                /\ is_active'[h]
                /\ pc'[h] = "top"
                /\ <<last_guidance, frame_count, started_at, last_analysis_time>>'
                       = <<last_guidance, frame_count, started_at, last_analysis_time>>]_vars

\* a start message without lang and context has put a session started in English
\* back to the defaults
C16_Witness ==
    \E h \in Handlers :
        /\ branch[h] = "start"
        /\ nrecv[h] = 3
        /\ frame_count[h] = 1
        /\ lang[h] = "hi"
        /\ context[h] = ""
        /\ raw[h].obj = [type |-> "start"]
        /\ out[h] = <<Status(StartedMsg)>>
        /\ guidance[h] = "Screen analysis failed. Please try again."

-----------------------------------------------------------------------------

\* C17: lang and context of a session change only in the step that receives a
\* start message; a frame, a command, a stop, a heartbeat, a payload of no known
\* shape, the return of a provider call and the end of the session leave both as
\* they are.
C17_OnlyStartSetsLangAndContext ==
    [][\A h \in Handlers :
          (lang'[h] # lang[h] \/ context'[h] # context[h])
          => (Received(h) /\ IsObjectOfType(raw'[h], "start"))]_vars

\* the language and the context of a start message are still those of the session
\* after a frame was analyzed and a command processed
C17_Witness ==
    \E h \in Handlers :
        /\ nrecv[h] = 3
        /\ frame_count[h] = 1
        /\ branch[h] \in {"repeated", "next", "stop"}
        /\ lang[h] = "en"
        /\ context[h] = "apply for scheme"

-----------------------------------------------------------------------------

\* C18: with the feature flag off, a connection is closed with code 4003 before the
\* handler runs: every connection is either not made yet or refused with that
\* code, no session is built, the registry is empty and nothing has been sent.
C18_DisabledRefusesConnection ==
    ~enable_screen_guide
    => /\ registry = << >>
       /\ \A h \in Handlers :
             /\ pc[h] \in {"idle", "refused"}
             /\ pc[h] = "refused" <=> branch[h] = "closed_4003"
             /\ ~HasSession(h)
             /\ ~is_active[h]
             /\ out[h] = <<>>
             /\ nrecv[h] = 0

\* a connection was refused
C18_Witness ==
    \E h \in Handlers :
        /\ ~enable_screen_guide
        /\ pc[h] = "refused"
        /\ branch[h] = "closed_4003"

-----------------------------------------------------------------------------
(* The chat endpoint *)

\* chat_query (main.py): guided = is_guided_flow(reply)
Chat ==
    /\ guided = <<>>
    /\ guided' = <<is_guided_flow(reply)>>
    /\ UNCHANGED <<reply, now, enable_screen_guide, dead, registry, pc, sid, sessionVars,
                   last_analysis_time, recv_start, raw, guidance, out, branch,
                   analyses, emitted, nrecv>>

\* chat_query (main.py): process_query has returned a reply
InitChat ==
    /\ Idle({"h1"})
    /\ reply \in Replies
    /\ guided = <<>>

NextChat == Chat

SpecChat == InitChat /\ [][NextChat]_vars

\* the keywords of the fixed set, each once
KeywordSet == { GUIDED_KEYWORDS[i] : i \in DOMAIN GUIDED_KEYWORDS }

\* two characters that are the same up to the case of a letter
SameLetter(a, b) ==
    \/ a = b
    \/ \E k \in DOMAIN UpperCase : {a, b} = {UpperCase[k], LowerCase[k]}

\* keyword kw occurs in text t at some position, the case of letters set aside
MatchesIgnoringCase(kw, t) ==
    \E i \in 1..Len(t) :
        /\ i + Len(kw) - 1 <= Len(t)
        /\ \A j \in 1..Len(kw) : SameLetter(t[i + j - 1], kw[j])

\* the distinct keywords matched in text t
Matched(t) == { kw \in KeywordSet : MatchesIgnoringCase(kw, t) }

\* C19: is_guided_flow(reply) is true exactly when at least 2 distinct keywords of
\* the fixed set occur in the reply as substrings, the case of letters set aside,
\* each keyword counted once however often it occurs.
C19_GuidedIffTwoDistinctKeywords ==
    guided # <<>> => (guided[1] <=> Cardinality(Matched(reply)) >= 2)

\* a reply in capital letters in which exactly two keywords occur, one of them
\* twice, was classified as guided
C19_Witness ==
    /\ guided = <<TRUE>>
    /\ Cardinality(Matched(reply)) = 2
    /\ \E i \in DOMAIN reply : reply[i] \in { UpperCase[k] : k \in DOMAIN UpperCase }
    /\ \E i, j \in DOMAIN reply :
          /\ i < j
          /\ j + 3 <= Len(reply)
          /\ Lower(SubSeq(reply, i, i + 3)) = <<"s", "t", "e", "p">>
          /\ Lower(SubSeq(reply, j, j + 3)) = <<"s", "t", "e", "p">>

-----------------------------------------------------------------------------

\* an analyze_screen call of handler h has been made and has not returned
InFlight(h) == pc[h] = "vision"

\* C20: an analysis is started only by a handler that is waiting for a payload, so
\* never while an analysis of the same session is in flight, and one at a time;
\* while an analysis is in flight the handler receives nothing, and the next payload
\* is received only after the analysis has returned.
C20_OneAnalysisInFlight ==
    [][\A h \in Handlers :
          /\ analyses'[h] # analyses[h]
             => /\ ~InFlight(h)
                /\ pc[h] = "recv"
                /\ analyses'[h] = analyses[h] + 1
                /\ InFlight(h)'
          /\ InFlight(h)
             => /\ nrecv'[h] = nrecv[h]
                /\ raw'[h] = raw[h]
                /\ frame_count'[h] = frame_count[h]
                /\ last_analysis_time'[h] = last_analysis_time[h]]_vars

\* the second analysis of a session is in flight, the first having returned
C20_Witness ==
    \E h \in Handlers :
        /\ InFlight(h)
        /\ analyses[h] = 2
        /\ guidance[h] # ""
        /\ now - started_at[h] < 2 * MIN_FRAME_INTERVAL

-----------------------------------------------------------------------------

\* handler h is inside its analyze_screen call or its synthesize call
Blocked(h) == pc[h] \in {"vision", "tts", "tts_repeat"}

\* a step handler g takes when the event loop resumes its coroutine: the head of the
\* loop, the return of receive_text with a payload, the return of synthesize
Proceeds(g) ==
    \/ LoopExit(g)
    \/ SessionTimeout(g)
    \/ BeginReceive(g)
    \/ \E r \in Payloads : Receive(g, r)
    \/ \E a \in AudioBytes : SynthReturn(g, a, 0)

\* C21: while one handler is inside its analyze_screen call or its synthesize call,
\* every other handler that is at the head of its loop, waiting for a payload or
\* waiting for its own synthesize call can take its next step: receive and process
\* a payload and send its events.
C21_OthersProceedWhileOneIsBlocked ==
    \A h, g \in Handlers :
        (h # g /\ Blocked(h) /\ pc[g] \in {"top", "recv", "tts", "tts_repeat"})
        => ENABLED Proceeds(g)

-----------------------------------------------------------------------------

\* the handler of h has accepted its connection and has not ended
Open(h) == pc[h] \in {"top", "recv", "vision", "tts", "tts_repeat", "finally"}

\* C22: whatever session ids the clients supply, the registry entry of an open
\* session is put in by its own handler and taken out only by its own handler, in
\* the step in which that handler ends: no step of another handler replaces or
\* removes it, and a handler that registers replaces no entry of an open session.
C22_OnlyOwnerMutatesEntry ==
    [][\A s \in DOMAIN registry :
          LET o == registry[s]
          IN Open(o)
             => \/ s \in DOMAIN registry' /\ registry'[s] = o
                \/ s \notin DOMAIN registry' /\ pc'[o] = "done"]_vars

-----------------------------------------------------------------------------
(* A transport that fails on send *)

\* the client of connection h goes away without a close handshake: from now on
\* send_text raises
TransportFails(h) ==
    /\ Open(h)
    /\ ~dead[h]
    /\ dead' = [dead EXCEPT ![h] = TRUE]
    /\ UNCHANGED <<now, enable_screen_guide, chatVars, registry, pc, sid, sessionVars,
                   last_analysis_time, recv_start, raw, guidance, out, branch,
                   analyses, emitted, nrecv>>

\* the number of payloads the client of a failing connection sends
MaxSendMsgs == 3

\* one payload for each event the handler sends: error, started, guidance (frame,
\* repeat), stopped (message and command), next
SendPayloads ==
    { [kind |-> "text"] }
        \cup { [kind |-> "object", obj |-> o] :
                 o \in { [type |-> "start", lang |-> "en", context |-> "apply for scheme"],
                         [type |-> "frame", image |-> "dGVzdA=="],
                         [type |-> "command", action |-> "repeat"],
                         [type |-> "command", action |-> "stop"],
                         [type |-> "command", action |-> "next"],
                         [type |-> "stop"] } }

\* one connection whose transport may fail at any moment
NextSend ==
    \/ \E h \in Handlers : Connect(h, "s1")
    \/ \E h \in Handlers : TransportFails(h)
    \/ StepOf(SendPayloads, MaxSendMsgs, ConcOutcomes, {0}, AudioBytes, {0})

SpecSend == Init /\ [][NextSend]_vars

\* the step in which handler h calls _send: for an error, a started, a stopped or a
\* next status right after the payload is received, for the heartbeat, for a
\* guidance event when synthesize returns, for the timed-out status
SendAttempt(h) ==
    \/ /\ Received(h)
       /\ \/ raw'[h].kind = "text"
          \/ IsObjectOfType(raw'[h], "start")
          \/ IsStop(raw'[h])
          \/ IsCommand(raw'[h], "next")
    \/ WaitTimedOut(h)
    \/ Synthesized(h)
    \/ pc[h] = "top" /\ pc'[h] = "finally"

\* C23: when handler h calls _send while send_text raises, nothing reaches the
\* client and the exception does not reach the loop: the handler goes on where it
\* would have gone on (the head of the loop, or finally after the timed-out
\* status), the registry is unchanged, is_active, lang, context, last_guidance and
\* frame_count are what the code before the send made them (is_active cleared by a
\* stop, lang and context set by a start, nothing else changed).
C23_SendFailureIsSwallowed ==
    [][\A h \in Handlers :
          (SendAttempt(h) /\ dead[h])
          => /\ out'[h] = <<>>
             /\ pc'[h] = (IF pc[h] = "top" THEN "finally" ELSE "top")
             /\ branch'[h] # "exception"
             /\ registry' = registry
             /\ sid[h] \in DOMAIN registry'
             /\ is_active'[h] = (is_active[h] /\ ~(Received(h) /\ IsStop(raw'[h])))
             /\ last_guidance'[h] = last_guidance[h]
             /\ frame_count'[h] = frame_count[h]
             /\ IF Received(h) /\ IsObjectOfType(raw'[h], "start")
                  THEN /\ lang'[h] = Get(raw'[h].obj, "lang", "hi")
                       /\ context'[h] = Get(raw'[h].obj, "context", "")
                  ELSE /\ lang'[h] = lang[h]
                       /\ context'[h] = context[h]]_vars

\* the send of the guidance event of an analyzed frame has failed and the session
\* is at the head of its loop, active and registered
C23_Witness ==
    \E h \in Handlers :
        /\ dead[h]
        /\ pc[h] = "top"
        /\ branch[h] = "guidance"
        /\ out[h] = <<>>
        /\ is_active[h]
        /\ sid[h] \in DOMAIN registry
        /\ frame_count[h] = 1
        /\ last_guidance[h] = "Click Next"

-----------------------------------------------------------------------------

\* C24: the flag is_active of a session is true exactly while the session is live:
\* it is true from accept on and false once the session has terminated, by a stop,
\* by the time-out, by a disconnect of the transport or by an exception.
C24_ActiveExactlyWhileLive ==
    \A h \in Handlers :
        HasSession(h) => (is_active[h] <=> ~Terminated(h))

-----------------------------------------------------------------------------

-----------------------------------------------------------------------------

-----------------------------------------------------------------------------

\* C27: a start message is processed whenever it is received, however many were
\* processed before; it never changes last_guidance, frame_count, started_at or
\* last_analysis_time. started_at is set by accept alone, so a session found older
\* than 300 seconds at the age check after a start times out all the same, and an
\* analysis whose result equals last_guidance sends nothing, after a start as
\* before it.
C27_RestartKeepsHistory ==
    [][\A h \in Handlers :
          /\ (Received(h) /\ IsObjectOfType(raw'[h], "start"))
             => /\ branch'[h] = "start"
                /\ analyses'[h] = analyses[h]
                /\ <<last_guidance, frame_count, started_at, last_analysis_time>>'
                       = <<last_guidance, frame_count, started_at, last_analysis_time>>
          /\ started_at'[h] # started_at[h] => pc[h] = "accept"
          /\ (branch[h] = "start" /\ pc[h] = "top" /\ pc'[h] # "top")
             => IF Age(h) > MAX_SESSION_DURATION
                  THEN pc'[h] = "finally" /\ branch'[h] = "timed_out"
                  ELSE pc'[h] = "recv"
          /\ (Analyzed(h) /\ guidance'[h] = last_guidance[h])
             => /\ pc'[h] = "top"
                /\ out'[h] = out[h]
                /\ last_guidance'[h] = last_guidance[h]]_vars

\* a start message was processed in a session that had a frame analyzed and its
\* guidance stored some time before: the third payload of the session
C27_Witness ==
    \E h \in Handlers :
        /\ pc[h] = "top"
        /\ branch[h] = "start"
        /\ nrecv[h] = 3
        /\ frame_count[h] = 1
        /\ last_guidance[h] = "Click Next"
        /\ lang[h] = "en"
        /\ Age(h) >= MIN_FRAME_INTERVAL
        /\ last_analysis_time[h] = started_at[h]

-----------------------------------------------------------------------------

\* C28: a session that has received nothing yet is active with lang "hi", an empty
\* context, no guidance and no frame counted; a frame payload with an image that is
\* the first payload of the session is analyzed with these defaults and makes
\* frame_count 1, a non-empty result of that analysis is synthesized and sent as a
\* guidance event with frame number 1, and no frame payload is dropped by the rate
\* gate before a frame has been analyzed.
C28_OperationalBeforeStart ==
    /\ [](\A h \in Handlers :
             (Open(h) /\ nrecv[h] = 0)
             => /\ is_active[h]
                /\ lang[h] = "hi"
                /\ context[h] = ""
                /\ last_guidance[h] = ""
                /\ frame_count[h] = 0)
    /\ [][\A h \in Handlers :
             /\ (Received(h) /\ IsFramePayload(raw'[h]) /\ analyses[h] = 0)
                => branch'[h] # "frame_skipped"
             /\ (Received(h) /\ nrecv[h] = 0 /\ IsFramePayload(raw'[h]) /\ HasImage(raw'[h]))
                => /\ pc'[h] = "vision"
                   /\ frame_count'[h] = 1
                   /\ lang'[h] = "hi"
                   /\ context'[h] = ""
             /\ (Analyzed(h) /\ nrecv[h] = 1)
                => /\ \E o \in VisionOutcomes :
                        guidance'[h] = analyze_screen(raw[h].obj.image, "", "hi", o)
                   /\ pc'[h] = (IF guidance'[h] # "" THEN "tts" ELSE "top")
             /\ (Synthesized(h) /\ nrecv[h] = 1)
                => /\ Len(out'[h]) = 1
                   /\ out'[h][1].type = "guidance"
                   /\ out'[h][1].text = guidance[h]
                   /\ out'[h][1].frame_num = 1]_vars

\* the guidance event of a frame was sent in a session that received no start
\* message, the frame having arrived at the moment of the accept
C28_Witness ==
    \E h \in Handlers :
        /\ pc[h] = "top"
        /\ branch[h] = "guidance"
        /\ nrecv[h] = 1
        /\ lang[h] = "hi"
        /\ context[h] = ""
        /\ frame_count[h] = 1
        /\ last_analysis_time[h] = started_at[h]
        /\ Len(out[h]) = 1
        /\ out[h][1].type = "guidance"
        /\ out[h][1].text = "Press the blue button"
        /\ out[h][1].frame_num = 1

-----------------------------------------------------------------------------
(* A session of frames whose results alternate between two texts *)

\* the number of payloads the client of such a session sends
MaxDedupMsgs == 3

\* the client sends frames, and a stop
DedupPayloads ==
    { [kind |-> "object", obj |-> o] :
        o \in { [type |-> "frame", image |-> "dGVzdA=="], [type |-> "stop"] } }

\* the vision provider answers every frame with one of two guidance texts
DedupOutcomes == { o \in VisionOutcomes : ~o.raises /\ Strip(o.content) # "" }

NextDedup ==
    \/ \E h \in Handlers : Connect(h, "s1")
    \/ StepOf(DedupPayloads, MaxDedupMsgs, DedupOutcomes, {0}, {"mp3"}, {0})

SpecDedup == Init /\ [][NextDedup]_vars

\* C29: the result of an analyzed frame is compared with last_guidance alone, the
\* text of the guidance event sent last: a non-empty result that differs from it is
\* stored as last_guidance, synthesized and sent as one guidance event carrying
\* that text and the frame number of its frame, whatever was sent before that; the
\* frame number goes up by one with every analyzed frame, so the events of the
\* frames of a session carry strictly increasing numbers. With results A, B, A
\* each of the three frames gets its event.
C29_DedupAgainstLastOnly ==
    /\ [][\A h \in Handlers :
             /\ Analyzed(h)
                => IF guidance'[h] # "" /\ guidance'[h] # last_guidance[h]
                     THEN /\ pc'[h] = "tts"
                          /\ last_guidance'[h] = guidance'[h]
                     ELSE /\ pc'[h] = "top"
                          /\ last_guidance'[h] = last_guidance[h]
             /\ (Synthesized(h) /\ pc[h] = "tts")
                => /\ out'[h] = <<Guidance(guidance[h], "bXAz", analyses[h])>>
                   /\ last_guidance'[h] = guidance[h]
                   /\ emitted'[h].cur
             /\ analyses'[h] # analyses[h]
                => /\ analyses'[h] = analyses[h] + 1
                   /\ frame_count'[h] = analyses'[h]]_vars
    /\ [](\A h \in Handlers :
             branch[h] = "guidance"
             => /\ out[h] = <<Guidance(last_guidance[h], "bXAz", analyses[h])>>
                /\ frame_count[h] = analyses[h]
                /\ emitted[h].cur)

\* three frames were analyzed with results A, B, A and the third has got its
\* guidance event, as the second had: the provider gives two texts, the first frame
\* of a session always gets its event, the second got one, so its text B differed
\* from the first, and the third got one, so its text differed from B
C29_Witness ==
    \E h \in Handlers :
        /\ pc[h] = "top"
        /\ branch[h] = "guidance"
        /\ analyses[h] = 3
        /\ emitted[h] = [prev |-> TRUE, cur |-> TRUE]
        /\ last_guidance[h] = "Click Next"
        /\ out[h] = <<Guidance("Click Next", "bXAz", 3)>>

-----------------------------------------------------------------------------

\* the connections made so far carry pairwise distinct session ids
DistinctIds ==
    \A h, g \in Handlers :
        (h # g /\ pc[h] # "idle" /\ pc[g] # "idle") => sid[h] # sid[g]

\* C30: when the connections carry pairwise distinct session ids,
\* get_active_sessions_count() equals the number of handlers that have accepted
\* their connection and have not ended, in every state: whatever the order in which
\* the sessions begin and end, by a stop, the time-out, a disconnect or an
\* exception.
C30_CountEqualsOpenHandlers ==
    DistinctIds
    => get_active_sessions_count = Cardinality({ h \in Handlers : Open(h) })

\* of two sessions with distinct ids one was ended by an exception while the other
\* is in its speech call: the count is 1
C30_Witness ==
    \E h, g \in Handlers :
        /\ sid[h] # sid[g]
        /\ pc[h] = "done"
        /\ branch[h] = "exception"
        /\ pc[g] = "tts"
        /\ get_active_sessions_count = 1

====
